---- MODULE Spec2Model ----
(***************************************************************************)
(* A model of src/app.py, the Streamlit attrition dashboard.               *)
(*                                                                         *)
(* The process holds one st.cache_resource entry (the three unpickled      *)
(* artifacts) shared by all sessions.  Every session has its own widget    *)
(* state and runs the script top to bottom on every interaction (a         *)
(* "render"); the script's module-level names are fresh in every render.   *)
(* A render is modelled statement group by statement group (pc), so that   *)
(* renders of different sessions interleave and an exception can end a     *)
(* render at the statement that raised it.                                 *)
(*                                                                         *)
(* Numbers: a probability is the exact decimal k / PScale (k an integer);  *)
(* a scaled feature is kept in hundredths.                                 *)
(***************************************************************************)
EXTENDS Integers, Sequences, FiniteSets, TLC

(***************************************************************************)
(* Bounds of the model.                                                    *)
(***************************************************************************)
\* The calendar days a behaviour may span (datetime.now() advances).
MaxDay == 1
\* load_model body executions are counted up to this number (saturating).
MaxDiskReads == 3
\* Longest persisted feature-name list drawn by SpecAlign.
MaxFeatureLen == 3

\* Resolution of a probability: p stands for p / PScale.
PScale == 100 * 100

Sessions == {"s1", "s2"}

Max(a, b) == IF a >= b THEN a ELSE b
Min(a, b) == IF a <= b THEN a ELSE b

(***************************************************************************)
(* The form (src/app.py:165-180): widget defaults and permitted values.    *)
(***************************************************************************)
FormDefaults ==
    [age |-> 30, monthly_income |-> 5000, years_at_company |-> 5,
     overtime |-> "Yes", job_satisfaction |-> 3, work_life_balance |-> 3]

\* Every value the six widgets accept: a number_input takes any integer from
\* min_value to max_value (step only sets the +/- increment), a selectbox or
\* select_slider one of its options.
FormValues ==
    [age              : 18..65,
     monthly_income   : 1000..50000,
     years_at_company : 0..40,
     overtime         : {"Yes", "No"},
     job_satisfaction : 1..4,
     work_life_balance: 1..4]

(***************************************************************************)
(* Data preparation (src/app.py:192-207).  A one-row DataFrame is the      *)
(* sequence of its columns, each [name, dtype, val].                       *)
(***************************************************************************)
\* The dict literal, in insertion order.
DictKeys ==
    <<"Age", "MonthlyIncome", "YearsAtCompany", "OverTime",
      "JobSatisfaction", "WorkLifeBalance">>

EmployeeInput(f) ==
    [Age |-> f.age, MonthlyIncome |-> f.monthly_income,
     YearsAtCompany |-> f.years_at_company, OverTime |-> f.overtime,
     JobSatisfaction |-> f.job_satisfaction,
     WorkLifeBalance |-> f.work_life_balance]

\* pd.DataFrame([employee_input]): one column per key, in key order; the
\* str-valued selectbox gives an object column, the numbers int64 columns.
DataFrame(d) ==
    [i \in 1..Len(DictKeys) |->
        [name  |-> DictKeys[i],
         dtype |-> IF DictKeys[i] = "OverTime" THEN "object" ELSE "int64",
         val   |-> d[DictKeys[i]]]]

IsObject(c) == c.dtype = "object"
IsNumeric(c) == c.dtype # "object"

\* pd.get_dummies(df): the non-object columns in order, then for every object
\* column one indicator column <name>_<value> for each value PRESENT in the
\* frame (one row: one value), set (True = 1).
GetDummies(df) ==
    LET num == SelectSeq(df, IsNumeric)
        obj == SelectSeq(df, IsObject)
    IN  num \o [i \in 1..Len(obj) |->
                  [name  |-> obj[i].name \o "_" \o obj[i].val,
                   dtype |-> "bool", val |-> 1]]

ColumnNames(df) == [i \in 1..Len(df) |-> df[i].name]

HasColumn(df, col) == \E i \in 1..Len(df) : df[i].name = col

\* for col in feature_names: if col not in df.columns: df[col] = 0
RECURSIVE ZeroFill(_, _)
ZeroFill(df, names) ==
    IF names = <<>> THEN df
    ELSE ZeroFill(IF HasColumn(df, Head(names)) THEN df
                  ELSE Append(df, [name |-> Head(names), dtype |-> "int64",
                                   val |-> 0]),
                  Tail(names))

Column(df, col) == df[CHOOSE i \in 1..Len(df) : df[i].name = col]

\* df[feature_names]: the listed columns, in the list's order.
SelectColumns(df, names) == [i \in 1..Len(names) |-> Column(df, names[i])]

\* A plausible slip: the zero fill is kept but the reindex is left out, so the
\* row keeps the encoded input's own columns and order.
AlignNoReindex(df, names) == ZeroFill(df, names)

\* Another: the columns are relabelled by position instead of reindexed by
\* name (missing positions zero-filled).
AlignRelabel(df, names) ==
    [i \in 1..Len(names) |->
        IF i <= Len(df) THEN [df[i] EXCEPT !.name = names[i]]
        ELSE [name |-> names[i], dtype |-> "int64", val |-> 0]]

Align(df, names) == SelectColumns(ZeroFill(df, names), names)

(***************************************************************************)
(* The persisted scaler and classifier are opaque pickles; they are        *)
(* modelled as a per-column standardiser and a linear scorer, both         *)
(* deterministic functions of the row that reject a row of the wrong       *)
(* width.                                                                  *)
(***************************************************************************)
\* transform raises on a row without columns and on a row whose width is not
\* the width the scaler was fitted on.
TransformFails(scaler, df) ==
    Len(df) = 0 \/ Len(df) # scaler.n_features_in

Transform(scaler, df) ==
    [i \in 1..Len(df) |->
        ((df[i].val - scaler.mean[i]) * 100) \div scaler.scale[i]]

RECURSIVE Dot(_, _)
Dot(w, x) ==
    IF w = <<>> \/ x = <<>> THEN 0
    ELSE Head(w) * Head(x) + Dot(Tail(w), Tail(x))

Score(m, x) == m.intercept + (Dot(m.coef, x) \div 100)

PredictFails(m, x) == Len(x) # m.n_features_in

PredictProbaFails(m, x) == PredictFails(m, x) \/ ~m.has_proba

\* model.predict(input_scaled)[0]
Predict(m, x) == IF 2 * Score(m, x) > PScale THEN 1 ELSE 0

\* model.predict_proba(input_scaled)[0][1]
PredictProba(m, x) == Max(0, Min(PScale, Score(m, x)))

(***************************************************************************)
(* Risk level (src/app.py:224-238).                                        *)
(***************************************************************************)
\* A plausible slip: the cut points are taken inclusively.
RiskLevelInclusive(p) ==
    IF 10 * p <= 3 * PScale THEN "Low Risk"
    ELSE IF 10 * p <= 6 * PScale THEN "Medium Risk"
    ELSE "High Risk"

RiskLevel(p) ==
    IF 10 * p < 3 * PScale THEN "Low Risk"
    ELSE IF 10 * p < 6 * PScale THEN "Medium Risk"
    ELSE "High Risk"

(***************************************************************************)
(* Number and date formatting used by the summary cards and the exports.   *)
(***************************************************************************)
\* f"{p:.1%}": the p whose third decimal of p*100 is an exact 5 and that the
\* IEEE double nearest to p / PScale rounds up (the others round down).
Pct1TiesUp ==
    { 5, 35, 65, 75, 85, 105, 135, 145, 155, 165, 175, 205, 235, 245, 275,
      285, 335, 345, 375, 385, 395, 415, 445, 465, 475, 485, 495, 505, 545,
      565, 575, 585, 615, 645, 655, 665, 675, 685, 695, 775, 795, 805, 815,
      845, 855, 875, 915, 955, 965, 975, 995, 1005, 1015, 1065, 1075, 1105,
      1115, 1145, 1155, 1165, 1175, 1215, 1255, 1265, 1275, 1295, 1305, 1315,
      1335, 1345, 1355, 1365, 1375, 1385, 1395, 1405, 1475, 1515, 1555, 1565,
      1575, 1595, 1605, 1615, 1635, 1655, 1665, 1675, 1685, 1695, 1705, 1715,
      1775, 1805, 1835, 1855, 1875, 1885, 1905, 1935, 1955, 1965, 1975, 1985,
      1995, 2005, 2015, 2075, 2105, 2155, 2175, 2185, 2205, 2235, 2255, 2265,
      2275, 2285, 2305, 2315, 2335, 2375, 2405, 2455, 2475, 2485, 2505, 2535,
      2555, 2565, 2575, 2585, 2605, 2615, 2635, 2645, 2655, 2665, 2675, 2685,
      2695, 2705, 2715, 2725, 2735, 2745, 2755, 2765, 2775, 2785, 2795, 2805,
      2975, 3055, 3075, 3085, 3105, 3135, 3155, 3175, 3185, 3235, 3245, 3255,
      3275, 3285, 3295, 3305, 3335, 3345, 3355, 3365, 3375, 3385, 3395, 3405,
      3415, 3435, 3475, 3535, 3575, 3585, 3635, 3675, 3685, 3695, 3735, 3745,
      3775, 3785, 3795, 3835, 3845, 3855, 3875, 3885, 3895, 3905, 3935, 3945,
      3955, 3975, 3985, 3995, 4005, 4015, 4035, 4045, 4055, 4075, 4175, 4185,
      4235, 4275, 4285, 4295, 4335, 4345, 4375, 4385, 4395, 4435, 4445, 4475,
      4485, 4495, 4505, 4535, 4545, 4555, 4575, 4585, 4595, 4605, 4615, 4635,
      4645, 4655, 4665, 4675, 4685, 4775, 4785, 4835, 4875, 4885, 4935, 4945,
      4975, 4985, 4995, 5275, 5375, 5435, 5475, 5485, 5535, 5545, 5575, 5585,
      5595, 5635, 5645, 5675, 5685, 5695, 5735, 5745, 5755, 5775, 5785, 5795,
      5805, 5835, 5845, 5855, 5865, 5875, 5885, 5895, 5905, 5915, 5935, 5945,
      5955, 5965, 5975, 5985, 5995, 6005, 6015, 6035, 6045, 6055, 6065, 6075,
      6085, 6095, 6105, 6115, 6125, 6135, 6145, 6155, 6165, 6175, 6185, 6195,
      6205, 6215, 6225, 6235, 6245, 6445, 6475, 6495, 6545, 6575, 6595, 6645,
      6675, 6695, 6715, 6745, 6765, 6775, 6795, 6815, 6845, 6865, 6875, 6895,
      6915, 6945, 6965, 6975, 6995, 7015, 7045, 7065, 7075, 7085, 7095, 7115,
      7135, 7145, 7165, 7175, 7185, 7195, 7215, 7235, 7245, 7265, 7275, 7285,
      7295, 7315, 7335, 7345, 7355, 7365, 7375, 7385, 7395, 7405, 7415, 7435,
      7445, 7455, 7465, 7475, 7485, 7495, 7575, 7675, 7695, 7745, 7775, 7795,
      7845, 7875, 7895, 7945, 7965, 7975, 7995, 8015, 8045, 8065, 8075, 8095,
      8115, 8145, 8165, 8175, 8195, 8215, 8245, 8265, 8275, 8295, 8315, 8335,
      8345, 8365, 8375, 8385, 8395, 8415, 8435, 8445, 8465, 8475, 8485, 8495,
      8515, 8535, 8545, 8565, 8575, 8585, 8595, 8605, 8615, 8635, 8645, 8655,
      8665, 8675, 8685, 8695, 8705, 8715, 8735, 8745, 8775, 8875, 8945, 8975,
      8995, 9045, 9075, 9095, 9145, 9175, 9195, 9215, 9245, 9265, 9275, 9295,
      9315, 9345, 9365, 9375, 9395, 9415, 9445, 9465, 9475, 9495, 9515, 9545,
      9565, 9575, 9585, 9595, 9615, 9635, 9645, 9665, 9675, 9685, 9695, 9715,
      9735, 9745, 9765, 9775, 9785, 9795, 9815, 9835, 9845, 9855, 9865, 9875,
      9885, 9895, 9905, 9915, 9935, 9945, 9955, 9965, 9975, 9985, 9995 }

\* f"{p:.2f}": likewise for the ties of the second decimal.
Fix2TiesUp ==
    { 50, 250, 350, 550, 650, 850, 950, 1150, 1350, 1650, 1950, 2250, 2550,
      2650, 2750, 3150, 3250, 3350, 3750, 3850, 3950, 4050, 4450, 4550, 4650,
      5050, 5150, 5250, 5350, 5450, 5550, 6350, 6450, 6550, 6650, 6750, 6850,
      7550, 7650, 7750, 7850, 7950, 8050, 8750, 8850, 8950, 9050, 9150, 9250,
      9350 }

\* f"{confidence:.1f}", confidence = max(p, 1-p) * 100 in doubles: the p at a
\* tie of the first decimal that is rounded up.
Conf1TiesUp ==
    { 5, 15, 25, 35, 45, 55, 65, 85, 95, 105, 115, 125, 135, 145, 155, 165,
      185, 205, 215, 225, 235, 255, 265, 285, 305, 315, 325, 335, 355, 365,
      385, 405, 415, 425, 435, 455, 485, 505, 525, 535, 555, 585, 605, 625,
      635, 655, 685, 705, 725, 735, 755, 785, 805, 825, 855, 905, 925, 955,
      1005, 1025, 1055, 1125, 1195, 1215, 1225, 1235, 1255, 1295, 1315, 1325,
      1335, 1355, 1395, 1415, 1425, 1435, 1455, 1465, 1485, 1505, 1515, 1525,
      1535, 1555, 1565, 1585, 1605, 1615, 1625, 1635, 1655, 1665, 1685, 1705,
      1725, 1735, 1755, 1785, 1805, 1825, 1835, 1855, 1885, 1905, 1925, 1935,
      1955, 1985, 2005, 2025, 2035, 2055, 2105, 2125, 2155, 2205, 2225, 2255,
      2305, 2325, 2345, 2365, 2385, 2405, 2425, 2445, 2465, 2485, 2505, 2525,
      2545, 2565, 2585, 2605, 2625, 2645, 2665, 2685, 2705, 2725, 2765, 2785,
      2805, 2815, 2825, 2835, 2855, 2865, 2885, 2905, 2915, 2925, 2935, 2955,
      2985, 3005, 3025, 3035, 3055, 3085, 3105, 3125, 3135, 3155, 3185, 3205,
      3225, 3235, 3255, 3285, 3305, 3325, 3355, 3405, 3425, 3455, 3475, 3495,
      3505, 3515, 3525, 3535, 3555, 3595, 3615, 3635, 3655, 3675, 3695, 3715,
      3735, 3755, 3775, 3795, 3815, 3835, 3855, 3875, 3895, 3915, 3935, 3955,
      3995, 4015, 4035, 4055, 4065, 4085, 4095, 4105, 4115, 4125, 4135, 4145,
      4155, 4165, 4195, 4205, 4215, 4225, 4245, 4255, 4265, 4305, 4315, 4325,
      4355, 4365, 4405, 4415, 4425, 4455, 4465, 4515, 4525, 4565, 4625, 4705,
      4725, 4745, 4765, 4785, 4805, 4825, 4845, 4865, 4885, 4905, 4925, 4945,
      4965, 4985, 5275, 5375, 5435, 5475, 5485, 5535, 5545, 5575, 5585, 5595,
      5635, 5645, 5675, 5685, 5695, 5735, 5745, 5755, 5775, 5785, 5795, 5805,
      5835, 5845, 5855, 5865, 5875, 5885, 5895, 5905, 5915, 5935, 5945, 5955,
      5965, 5975, 5985, 5995, 6005, 6015, 6035, 6045, 6055, 6065, 6075, 6085,
      6095, 6105, 6115, 6125, 6135, 6145, 6155, 6165, 6175, 6185, 6195, 6205,
      6215, 6225, 6235, 6245, 6445, 6475, 6495, 6545, 6575, 6595, 6645, 6675,
      6695, 6715, 6745, 6765, 6775, 6795, 6815, 6845, 6865, 6875, 6895, 6915,
      6945, 6965, 6975, 6995, 7015, 7045, 7065, 7075, 7085, 7095, 7115, 7135,
      7145, 7165, 7175, 7185, 7195, 7215, 7235, 7245, 7265, 7275, 7285, 7295,
      7315, 7335, 7345, 7355, 7365, 7375, 7385, 7395, 7405, 7415, 7435, 7445,
      7455, 7465, 7475, 7485, 7495, 7575, 7675, 7695, 7745, 7775, 7795, 7845,
      7875, 7895, 7945, 7965, 7975, 7995, 8015, 8045, 8065, 8075, 8095, 8115,
      8145, 8165, 8175, 8195, 8215, 8245, 8265, 8275, 8295, 8315, 8335, 8345,
      8365, 8375, 8385, 8395, 8415, 8435, 8445, 8465, 8475, 8485, 8495, 8515,
      8535, 8545, 8565, 8575, 8585, 8595, 8605, 8615, 8635, 8645, 8655, 8665,
      8675, 8685, 8695, 8705, 8715, 8735, 8745, 8775, 8875, 8945, 8975, 8995,
      9045, 9075, 9095, 9145, 9175, 9195, 9215, 9245, 9265, 9275, 9295, 9315,
      9345, 9365, 9375, 9395, 9415, 9445, 9465, 9475, 9495, 9515, 9545, 9565,
      9575, 9585, 9595, 9615, 9635, 9645, 9665, 9675, 9685, 9695, 9715, 9735,
      9745, 9765, 9775, 9785, 9795, 9815, 9835, 9845, 9855, 9865, 9875, 9885,
      9895, 9905, 9915, 9935, 9945, 9955, 9965, 9975, 9985, 9995 }

\* n / 10^d rounded to an integer: to nearest, a tie going up iff tieUp.
RoundTie(n, unit, tieUp) ==
    LET q == n \div unit
        r == n % unit
    IN  IF 2 * r < unit THEN q
        ELSE IF 2 * r > unit THEN q + 1
        ELSE IF tieUp THEN q + 1 ELSE q

\* A non-negative number of tenths as "<int>.<d>".
Tenths(t) == ToString(t \div 10) \o "." \o ToString(t % 10)

\* A non-negative number of hundredths as "<int>.<dd>".
Hundredths(h) ==
    ToString(h \div 100) \o "." \o ToString((h % 100) \div 10)
        \o ToString(h % 10)

\* A plausible slip: the percentage is rounded up instead of to nearest.
FmtPct1Ceil(p) == Tenths((p * 1000 + PScale - 1) \div PScale) \o "%"

\* f"{probability:.1%}"
FmtPct1(p) == Tenths(RoundTie(p * 1000, PScale, p \in Pct1TiesUp)) \o "%"

\* f"{probability:.2f}"
FmtFix2(p) == Hundredths(RoundTie(p * 100, PScale, p \in Fix2TiesUp))

\* confidence = (max(probability, 1-probability)) * 100, in units of 1/PScale
Confidence(p) == 100 * Max(p, PScale - p)

\* The delta of the Confidence card: "High" if confidence > 80 else "Medium"
\* (src/app.py:302).
ConfidenceDelta(p) ==
    IF Confidence(p) > 80 * PScale THEN "High" ELSE "Medium"

\* f"{confidence:.1f}"
FmtConf1(p) ==
    Tenths(RoundTie(Confidence(p) * 10, PScale, p \in Conf1TiesUp))

\* f"{monthly_income:,}" for the permitted incomes (1000..50000)
FmtThousands(n) ==
    LET r == n % 1000
    IN  IF n < 1000 THEN ToString(n)
        ELSE ToString(n \div 1000) \o ","
             \o (IF r < 10 THEN "00" ELSE IF r < 100 THEN "0" ELSE "")
             \o ToString(r)

MonthNames ==
    <<"January", "February", "March", "April", "May", "June", "July",
      "August", "September", "October", "November", "December">>

\* The calendar date n days after 30 December 2024 (n <= 32).
DateOf(n) ==
    IF n <= 1 THEN [year |-> 2024, month |-> 12, day |-> 30 + n]
    ELSE [year |-> 2025, month |-> 1, day |-> n - 1]

\* strftime("%B %d, %Y")
Strftime(d) ==
    MonthNames[d.month] \o " " \o (IF d.day < 10 THEN "0" ELSE "")
        \o ToString(d.day) \o ", " \o ToString(d.year)

\* risk_level.upper()
Upper(level) ==
    CASE level = "Low Risk" -> "LOW RISK"
      [] level = "Medium Risk" -> "MEDIUM RISK"
      [] level = "High Risk" -> "HIGH RISK"

(***************************************************************************)
(* Insight and action texts (src/app.py:390-454), without their emoji.     *)
(***************************************************************************)
Headline(p) ==
    IF 10 * p >= 6 * PScale
    THEN "**Critical Alert:** Employee shows high attrition probability"
    ELSE IF 10 * p >= 3 * PScale
    THEN "**Watch Alert:** Moderate risk detected - early intervention recommended"
    ELSE "**Positive Signal:** Low attrition risk - employee appears stable"

Insights(f, p) ==
    <<Headline(p)>>
    \o (IF f.overtime = "Yes" /\ f.job_satisfaction <= 2
        THEN <<"**Red Flag:** Overtime combined with low satisfaction is critical">>
        ELSE IF f.overtime = "Yes"
        THEN <<"**Concern:** Overtime work may lead to burnout">>
        ELSE <<>>)
    \o (IF f.job_satisfaction <= 2
        THEN <<"**Issue:** Low job satisfaction requires immediate attention">>
        ELSE <<>>)
    \o (IF f.work_life_balance <= 2
        THEN <<"**Concern:** Poor work-life balance affecting wellbeing">>
        ELSE <<>>)
    \o (IF f.monthly_income < 5000 /\ f.age > 35
        THEN <<"**Concern:** Compensation may be below market rate for experience level">>
        ELSE <<>>)
    \o (IF f.years_at_company > 10 /\ f.job_satisfaction <= 2
        THEN <<"**Burnout Risk:** Long-tenured employee showing dissatisfaction">>
        ELSE <<>>)
    \o (IF f.years_at_company < 1
        THEN <<"**New Hire Risk:** Recently joined - onboarding quality check needed">>
        ELSE <<>>)

Actions(p) ==
    IF 10 * p >= 6 * PScale
    THEN <<"**Immediate:** Schedule retention interview within 48 hours",
           "**Career:** Discuss promotion opportunities and career growth path",
           "**Compensation:** Review and adjust salary to market standards",
           "**Recognition:** Implement immediate recognition and rewards",
           "**Development:** Offer sponsored training or certification programs",
           "**Mentorship:** Pair with senior leader for guidance">>
    ELSE IF 10 * p >= 3 * PScale
    THEN <<"**Monitor:** Conduct monthly check-ins and pulse surveys",
           "**Engage:** Include in key projects and decision-making",
           "**Recognize:** Public acknowledgment in team meetings",
           "**Flexibility:** Offer flexible hours or remote work options",
           "**Growth:** Create clear development roadmap",
           "**Connect:** Foster stronger team relationships">>
    ELSE <<"**Maintain:** Continue current engagement practices",
           "**Opportunities:** Offer leadership or mentorship roles",
           "**Learning:** Provide advanced skill development programs",
           "**Challenge:** Assign stretch projects to maintain interest",
           "**Reward:** Ensure competitive compensation and benefits",
           "**Culture:** Keep them engaged in culture initiatives">>

(***************************************************************************)
(* Risk factor scores (src/app.py:311-350), in the order of risk_scores:   *)
(* Overtime Work, Job Satisfaction, Work-Life Balance, Compensation,       *)
(* Tenure.                                                                 *)
(***************************************************************************)
\* A plausible slip: only new hires are scored as elevated.
TenureRiskNewHiresOnly(years) ==
    IF years < 2 THEN 15 ELSE 5

TenureRisk(years) ==
    IF years < 2 THEN 15
    ELSE IF years > 10 THEN 12
    ELSE 5

RiskScores(f) ==
    <<IF f.overtime = "Yes" THEN 25 ELSE 5,
      IF f.job_satisfaction <= 2 THEN 30 ELSE 10,
      IF f.work_life_balance <= 2 THEN 25 ELSE 8,
      IF f.monthly_income < 5000 /\ f.age > 30 THEN 20 ELSE 7,
      TenureRisk(f.years_at_company)>>

(***************************************************************************)
(* Radar profile scores (src/app.py:865-871) and success metrics           *)
(* (src/app.py:916-945), in hundredths of a point: x / 4 * 100 is          *)
(* 2500 * x hundredths, income / 10000 * 100 is income hundredths and      *)
(* years / 10 * 100 is 1000 * years hundredths.                            *)
(***************************************************************************)
\* A plausible slip: the income score is left without its min(..., 100).
ProfileScoresUncapped(f) ==
    <<2500 * f.job_satisfaction,
      2500 * f.work_life_balance,
      f.monthly_income,
      Min(1000 * f.years_at_company, 100 * 100),
      IF f.overtime = "No" THEN 100 * 100 ELSE 30 * 100>>

ProfileScores(f) ==
    <<2500 * f.job_satisfaction,
      2500 * f.work_life_balance,
      Min(f.monthly_income, 100 * 100),
      Min(1000 * f.years_at_company, 100 * 100),
      IF f.overtime = "No" THEN 100 * 100 ELSE 30 * 100>>

\* ((job_satisfaction + work_life_balance) / 8) * 100
EngagementScore(f) == 1250 * (f.job_satisfaction + f.work_life_balance)

\* (job_satisfaction / 4) * 100
SatisfactionIndex(f) == 2500 * f.job_satisfaction

\* min((years_at_company / 10) * 100, 100)
StabilityScore(f) == Min(1000 * f.years_at_company, 100 * 100)

(***************************************************************************)
(* The default of the Priority Level slider (src/app.py:715-719).          *)
(***************************************************************************)
PriorityOptions == <<"Low", "Medium", "High", "Critical">>

\* A plausible slip: the cut points taken exclusive.
DefaultPriorityExclusive(p) ==
    IF 10 * p > 6 * PScale THEN "High"
    ELSE IF 10 * p > 3 * PScale THEN "Medium"
    ELSE "Low"

DefaultPriority(p) ==
    IF 10 * p >= 6 * PScale THEN "High"
    ELSE IF 10 * p >= 3 * PScale THEN "Medium"
    ELSE "Low"

(***************************************************************************)
(* The three exports (src/app.py:600-682).  The text report is the         *)
(* sequence of its lines, the CSV its header and data line, the JSON       *)
(* document the dict handed to json.dumps.                                 *)
(***************************************************************************)
Ruler == "============================================================"

RECURSIVE Bulleted(_)
Bulleted(items) ==
    IF items = <<>> THEN <<>>
    ELSE <<"- " \o Head(items)>> \o Bulleted(Tail(items))

Numbered(items) ==
    [i \in 1..Len(items) |-> ToString(i) \o ". " \o items[i]]

PdfText(date, f, prediction, p, level, insights, actions) ==
    <<"EMPLOYEE ATTRITION RISK ASSESSMENT REPORT",
      "Generated: " \o date, Ruler, "",
      "EMPLOYEE PROFILE", Ruler,
      "Age: " \o ToString(f.age) \o " years",
      "Tenure: " \o ToString(f.years_at_company) \o " years",
      "Monthly Income: $" \o FmtThousands(f.monthly_income),
      "Overtime: " \o f.overtime,
      "Job Satisfaction: " \o ToString(f.job_satisfaction) \o "/4",
      "Work-Life Balance: " \o ToString(f.work_life_balance) \o "/4", "",
      "RISK ASSESSMENT", Ruler,
      "Prediction: " \o (IF prediction = 1 THEN "ATTRITION LIKELY"
                         ELSE "RETENTION LIKELY"),
      "Risk Probability: " \o FmtPct1(p),
      "Risk Level: " \o Upper(level),
      "Confidence Score: " \o FmtConf1(p) \o "%", "",
      "KEY INSIGHTS", Ruler>>
    \o Bulleted(insights)
    \o <<"", "RECOMMENDED ACTIONS", Ruler>>
    \o Numbered(actions)
    \o <<"", Ruler, "Report generated by AI HR Analytics Platform">>

RECURSIVE JoinComma(_)
JoinComma(cells) ==
    IF cells = <<>> THEN ""
    ELSE IF Len(cells) = 1 THEN Head(cells)
    ELSE Head(cells) \o "," \o JoinComma(Tail(cells))

\* The keys of the one dict csv_data is built from, in order.
CsvHeader ==
    <<"Date", "Age", "Years_at_Company", "Monthly_Income", "OverTime",
      "Job_Satisfaction", "Work_Life_Balance", "Prediction",
      "Risk_Probability", "Risk_Level", "Confidence">>

\* A plausible slip: the cells follow employee_input's order (income before
\* tenure) under the CSV's header (tenure before income).
CsvRowDictOrder(date, f, prediction, p, level) ==
    <<"\"" \o date \o "\"", ToString(f.age), ToString(f.monthly_income),
      ToString(f.years_at_company), f.overtime,
      ToString(f.job_satisfaction), ToString(f.work_life_balance),
      IF prediction = 1 THEN "Attrition" ELSE "Retention",
      FmtFix2(p), level, FmtConf1(p)>>

\* The cells of the one data row; the date holds a comma, so to_csv quotes
\* it.
CsvRow(date, f, prediction, p, level) ==
    <<"\"" \o date \o "\"", ToString(f.age), ToString(f.years_at_company),
      ToString(f.monthly_income), f.overtime,
      ToString(f.job_satisfaction), ToString(f.work_life_balance),
      IF prediction = 1 THEN "Attrition" ELSE "Retention",
      FmtFix2(p), level, FmtConf1(p)>>

\* csv_data.to_csv(index=False): the header line and the one data line.
CsvData(date, f, prediction, p, level) ==
    <<JoinComma(CsvHeader),
      JoinComma(CsvRow(date, f, prediction, p, level))>>

JsonData(date, input, prediction, p, level, insights, actions) ==
    [report_date      |-> date,
     employee_profile |-> input,
     risk_assessment  |->
        [prediction |-> IF prediction = 1 THEN "Attrition" ELSE "Retention",
         probability |-> p,
         risk_level  |-> level,
         confidence  |-> Confidence(p)],
     insights         |-> insights,
     recommendations  |-> actions]

(***************************************************************************)
(* The persisted artifacts a behaviour may find on disk.                   *)
(***************************************************************************)
ArtifactFiles == {"model", "scaler", "feature_names"}

\* The training-time columns of the six fields with both OverTime dummies.
StdFeatures ==
    <<"Age", "MonthlyIncome", "YearsAtCompany", "JobSatisfaction",
      "WorkLifeBalance", "OverTime_No", "OverTime_Yes">>

\* A list in another order, with a training-only column and without some of
\* the input's columns.
AltFeatures == <<"OverTime_Yes", "Department_Sales", "Age", "YearsAtCompany">>

StdScaler ==
    [n_features_in |-> 7, mean |-> <<37, 6500, 7, 3, 3, 0, 0>>,
     scale |-> <<9, 4700, 6, 1, 1, 1, 1>>]

AltScaler ==
    [n_features_in |-> 4, mean |-> <<0, 0, 37, 7>>, scale |-> <<1, 1, 9, 6>>]

StdModel ==
    [n_features_in |-> 7, has_proba |-> TRUE, intercept |-> 4000,
     coef |-> <<-1000, 0, 0, 0, 0, 0, 2500>>]

AltModel ==
    [n_features_in |-> 4, has_proba |-> TRUE, intercept |-> 2990,
     coef |-> <<3000, 0, -500, 0>>]

StdArtifacts ==
    [model |-> StdModel, scaler |-> StdScaler, feature_names |-> StdFeatures]

AltArtifacts ==
    [model |-> AltModel, scaler |-> AltScaler, feature_names |-> AltFeatures]

\* What Spec may find on disk: consistent artifacts, a missing file, a scaler
\* or classifier fitted on another number of columns, a classifier without
\* predict_proba.
DiskStates ==
    {[present |-> ArtifactFiles, content |-> a] :
        a \in {StdArtifacts, AltArtifacts,
               [StdArtifacts EXCEPT !.scaler.n_features_in = 6],
               [StdArtifacts EXCEPT !.model.n_features_in = 6],
               [StdArtifacts EXCEPT !.model.has_proba = FALSE]}}
    \cup
    {[present |-> ArtifactFiles \ {f}, content |-> StdArtifacts] :
        f \in ArtifactFiles}

(***************************************************************************)
(* State.                                                                  *)
(***************************************************************************)
VARIABLES
    disk,        \* the three pickle files: which exist, and what they hold
    cache,       \* the st.cache_resource entry of load_model
    diskReads,   \* executions of load_model's body (saturating)
    today,       \* the calendar day, in days after DateOf(0)
    form,        \* per session: the six widgets' values
    trigger,     \* per session: the interaction that started the render
    pc,          \* per session: the statement group the script is at
    ns,          \* per session: the script's names bound in this render
    shown,       \* per session: the elements this render has emitted
    failed,      \* per session: the statement that raised, or "none"
    trace        \* per session: the pipeline stages this render has run

vars ==
    <<disk, cache, diskReads, today, form, trigger, pc, ns, shown, failed,
      trace>>

EmptyCache == [present |-> FALSE, value |-> <<>>]

\* The script's names before any statement has run.
Fresh ==
    [artifacts |-> <<>>, widgets |-> <<>>, employee_input |-> <<>>,
     input_df |-> <<>>, input_df_encoded |-> <<>>, input_scaled |-> <<>>,
     predict_button |-> FALSE, prediction |-> -1, probability |-> -1,
     risk_level |-> "", insights |-> <<>>, actions |-> <<>>,
     report_date |-> "", pdf_text |-> <<>>, csv_data |-> <<>>,
     json_data |-> <<>>, confidence_delta |-> "", risk_scores |-> <<>>,
     profile_scores |-> <<>>, engagement_score |-> -1,
     satisfaction_index |-> -1, stability_score |-> -1, priority |-> ""]

\* The follow-up widgets inside the predict block (src/app.py:705-735).
QuickActions == {"save_notes", "send_manager", "calendar_event", "reminder"}
FollowUpWidgets == QuickActions \cup {"hr_notes"}

\* Elements emitted by the predict block (src/app.py:240-945).
ResultElements ==
    {"gauge", "summary_cards", "risk_factors", "insights", "actions",
     "benchmarks", "report", "download_txt", "download_csv", "download_json",
     "followup", "trend", "roi", "breakdown", "success_metrics"}

\* The values Spec lets a user set (a subset of FormValues).
SpecDomain ==
    [age |-> {30, 50}, monthly_income |-> {5000},
     years_at_company |-> {5}, overtime |-> {"Yes", "No"},
     job_satisfaction |-> {3}, work_life_balance |-> {3}]

FormFields == DOMAIN FormDefaults

Idle(s) == pc[s] \in {"done", "crashed"}

TypeOK ==
    /\ today \in 0..MaxDay
    /\ diskReads \in 0..MaxDiskReads
    /\ \A s \in Sessions : form[s] \in FormValues

InitSessions ==
    /\ form = [s \in Sessions |-> FormDefaults]
    /\ trigger = [s \in Sessions |-> "none"]
    /\ pc = [s \in Sessions |-> "new"]
    /\ ns = [s \in Sessions |-> Fresh]
    /\ shown = [s \in Sessions |-> {}]
    /\ failed = [s \in Sessions |-> "none"]
    /\ trace = [s \in Sessions |-> <<>>]

Init ==
    /\ disk \in DiskStates
    /\ cache = EmptyCache
    /\ diskReads = 0
    /\ today = 0
    /\ InitSessions

(***************************************************************************)
(* Interactions: each starts a rerun of the script from its first line.    *)
(***************************************************************************)
StartRender(s, by) ==
    /\ trigger' = [trigger EXCEPT ![s] = by]
    /\ pc' = [pc EXCEPT ![s] = "load"]
    /\ ns' = [ns EXCEPT ![s] = Fresh]
    /\ shown' = [shown EXCEPT ![s] = {}]
    /\ failed' = [failed EXCEPT ![s] = "none"]
    /\ trace' = [trace EXCEPT ![s] = <<>>]

\* A browser opens the page.
Connect(s) ==
    /\ pc[s] = "new"
    /\ StartRender(s, "connect")
    /\ UNCHANGED <<disk, cache, diskReads, today, form>>

\* The page is reloaded: a new session, its widgets at their defaults.
Reload(s) ==
    /\ Idle(s)
    /\ form' = [form EXCEPT ![s] = FormDefaults]
    /\ StartRender(s, "connect")
    /\ UNCHANGED <<disk, cache, diskReads, today>>

\* The user changes one of the six form widgets to another value of dom.
ChangeWidgetIn(s, dom) ==
    /\ Idle(s)
    /\ "form" \in shown[s]
    /\ \E k \in FormFields : \E v \in dom[k] :
          /\ v # form[s][k]
          /\ form' = [form EXCEPT ![s][k] = v]
    /\ StartRender(s, "form")
    /\ UNCHANGED <<disk, cache, diskReads, today>>

ChangeWidget(s) == ChangeWidgetIn(s, SpecDomain)

\* The user presses ANALYZE ATTRITION RISK.
ClickPredict(s) ==
    /\ Idle(s)
    /\ "predict_button" \in shown[s]
    /\ StartRender(s, "predict")
    /\ UNCHANGED <<disk, cache, diskReads, today, form>>

\* The user types case notes or presses a Quick Action button.
FollowUp(s) ==
    /\ Idle(s)
    /\ "followup" \in shown[s]
    /\ \E w \in FollowUpWidgets : StartRender(s, w)
    /\ UNCHANGED <<disk, cache, diskReads, today, form>>

\* The date changes.
Midnight ==
    /\ today < MaxDay
    /\ today' = today + 1
    /\ UNCHANGED <<disk, cache, diskReads, form, trigger, pc, ns, shown,
                   failed, trace>>

(***************************************************************************)
(* The script, statement group by statement group.                         *)
(***************************************************************************)
Goto(s, next) == pc' = [pc EXCEPT ![s] = next]

\* A plausible change: the failing statement is wrapped in a try whose handler
\* shows st.error and lets the script go on to the footer.
RaiseCaught(s, at) ==
    /\ pc' = [pc EXCEPT ![s] = "footer"]
    /\ failed' = [failed EXCEPT ![s] = at]
    /\ shown' = [shown EXCEPT ![s] = @ \cup {"error_message"}]

\* No statement of the script is inside a try: an exception ends the render,
\* and Streamlit shows it in place of the rest of the page.
Raise(s, at) ==
    /\ pc' = [pc EXCEPT ![s] = "crashed"]
    /\ failed' = [failed EXCEPT ![s] = at]
    /\ shown' = [shown EXCEPT ![s] = @ \cup {"exception"}]

Ran(s, stage) == trace' = [trace EXCEPT ![s] = Append(@, stage)]

CountRead == diskReads' = Min(diskReads + 1, MaxDiskReads)

\* The decorator left out: every render runs the body.
LoadModelUncached(s) ==
    /\ pc[s] = "load"
    /\ CountRead
    /\ IF disk.present = ArtifactFiles
       THEN /\ cache' = [present |-> TRUE, value |-> disk.content]
            /\ ns' = [ns EXCEPT ![s].artifacts = disk.content]
            /\ Goto(s, "dict")
            /\ UNCHANGED <<shown, failed>>
       ELSE /\ Raise(s, "load")
            /\ UNCHANGED <<cache, ns>>
    /\ UNCHANGED <<disk, today, form, trigger, trace>>

\* model, scaler, feature_names = load_model() under @st.cache_resource: a hit
\* returns the cached objects; a miss runs the body, which opens the three
\* files in turn and raises at the first that does not exist (nothing is
\* cached then).
LoadModel(s) ==
    /\ pc[s] = "load"
    /\ IF cache.present
       THEN /\ ns' = [ns EXCEPT ![s].artifacts = cache.value]
            /\ Goto(s, "dict")
            /\ UNCHANGED <<cache, diskReads, shown, failed>>
       ELSE /\ CountRead
            /\ IF disk.present = ArtifactFiles
               THEN /\ cache' = [present |-> TRUE, value |-> disk.content]
                    /\ ns' = [ns EXCEPT ![s].artifacts = disk.content]
                    /\ Goto(s, "dict")
                    /\ UNCHANGED <<shown, failed>>
               ELSE /\ Raise(s, "load")
                    /\ UNCHANGED <<cache, ns>>
    /\ UNCHANGED <<disk, today, form, trigger, trace>>

\* Page chrome, the six widgets, and the employee_input dict.
BuildDict(s) ==
    /\ pc[s] = "dict"
    /\ ns' = [ns EXCEPT ![s].widgets = form[s],
                        ![s].employee_input = EmployeeInput(form[s])]
    /\ shown' = [shown EXCEPT ![s] = @ \cup {"sidebar", "header", "form"}]
    /\ Ran(s, "dict")
    /\ Goto(s, "table")
    /\ UNCHANGED <<disk, cache, diskReads, today, form, trigger, failed>>

\* input_df = pd.DataFrame([employee_input])
BuildTable(s) ==
    /\ pc[s] = "table"
    /\ ns' = [ns EXCEPT ![s].input_df = DataFrame(ns[s].employee_input)]
    /\ Ran(s, "table")
    /\ Goto(s, "encode")
    /\ UNCHANGED <<disk, cache, diskReads, today, form, trigger, shown,
                   failed>>

\* input_df_encoded = pd.get_dummies(input_df)
Encode(s) ==
    /\ pc[s] = "encode"
    /\ ns' = [ns EXCEPT ![s].input_df_encoded = GetDummies(ns[s].input_df)]
    /\ Ran(s, "encode")
    /\ Goto(s, "align")
    /\ UNCHANGED <<disk, cache, diskReads, today, form, trigger, shown,
                   failed>>

\* A plausible slip: the zero fill and reindex are applied to the shared
\* list instead of the table (the list takes the table's columns).
AlignColumnsIntoList(s) ==
    /\ pc[s] = "align"
    /\ cache' = [cache EXCEPT !.value.feature_names =
                                  ColumnNames(ns[s].input_df_encoded)]
    /\ ns' = [ns EXCEPT ![s].input_df_encoded =
                 Align(@, ns[s].artifacts.feature_names)]
    /\ Ran(s, "align")
    /\ Goto(s, "scale")
    /\ UNCHANGED <<disk, diskReads, today, form, trigger, shown, failed>>

\* The zero-fill loop and the reindex.
AlignColumns(s) ==
    /\ pc[s] = "align"
    /\ ns' = [ns EXCEPT ![s].input_df_encoded =
                 Align(@, ns[s].artifacts.feature_names)]
    /\ Ran(s, "align")
    /\ Goto(s, "scale")
    /\ UNCHANGED <<disk, cache, diskReads, today, form, trigger, shown,
                   failed>>

\* input_scaled = scaler.transform(input_df_encoded)
Scale(s) ==
    /\ pc[s] = "scale"
    /\ IF TransformFails(ns[s].artifacts.scaler, ns[s].input_df_encoded)
       THEN /\ Raise(s, "scale")
            /\ UNCHANGED <<ns, trace>>
       ELSE /\ ns' = [ns EXCEPT ![s].input_scaled =
                         Transform(ns[s].artifacts.scaler,
                                   ns[s].input_df_encoded)]
            /\ Ran(s, "scale")
            /\ Goto(s, "button")
            /\ UNCHANGED <<shown, failed>>
    /\ UNCHANGED <<disk, cache, diskReads, today, form, trigger>>

\* A plausible change: the result is kept on screen while the follow-up
\* widgets are used (the click is remembered across reruns).
ButtonSticky(s) ==
    /\ pc[s] = "button"
    /\ ns' = [ns EXCEPT ![s].predict_button =
                 (trigger[s] \in {"predict"} \cup FollowUpWidgets)]
    /\ shown' = [shown EXCEPT ![s] = @ \cup {"predict_button"}]
    /\ Goto(s, IF trigger[s] \in {"predict"} \cup FollowUpWidgets
               THEN "predict" ELSE "footer")
    /\ UNCHANGED <<disk, cache, diskReads, today, form, trigger, failed,
                   trace>>

\* predict_button = st.button(...): True only in the render its click started.
Button(s) ==
    /\ pc[s] = "button"
    /\ ns' = [ns EXCEPT ![s].predict_button = (trigger[s] = "predict")]
    /\ shown' = [shown EXCEPT ![s] = @ \cup {"predict_button"}]
    /\ Goto(s, IF trigger[s] = "predict" THEN "predict" ELSE "footer")
    /\ UNCHANGED <<disk, cache, diskReads, today, form, trigger, failed,
                   trace>>

\* A plausible slip: the aligned but unscaled frame is handed to predict.
InferUnscaled(s) ==
    /\ pc[s] = "predict"
    /\ LET raw == [i \in 1..Len(ns[s].input_df_encoded) |->
                      100 * ns[s].input_df_encoded[i].val]
       IN  IF PredictFails(ns[s].artifacts.model, raw)
           THEN /\ Raise(s, "predict")
                /\ UNCHANGED <<ns, trace>>
           ELSE /\ ns' = [ns EXCEPT ![s].prediction =
                             Predict(ns[s].artifacts.model, raw)]
                /\ Ran(s, "predict")
                /\ Goto(s, "proba")
                /\ UNCHANGED <<shown, failed>>
    /\ UNCHANGED <<disk, cache, diskReads, today, form, trigger>>

\* prediction = model.predict(input_scaled)[0]
Infer(s) ==
    /\ pc[s] = "predict"
    /\ IF PredictFails(ns[s].artifacts.model, ns[s].input_scaled)
       THEN /\ Raise(s, "predict")
            /\ UNCHANGED <<ns, trace>>
       ELSE /\ ns' = [ns EXCEPT ![s].prediction =
                         Predict(ns[s].artifacts.model, ns[s].input_scaled)]
            /\ Ran(s, "predict")
            /\ Goto(s, "proba")
            /\ UNCHANGED <<shown, failed>>
    /\ UNCHANGED <<disk, cache, diskReads, today, form, trigger>>

\* probability = model.predict_proba(input_scaled)[0][1]
Proba(s) ==
    /\ pc[s] = "proba"
    /\ IF PredictProbaFails(ns[s].artifacts.model, ns[s].input_scaled)
       THEN /\ Raise(s, "predict_proba")
            /\ UNCHANGED <<ns, trace>>
       ELSE /\ ns' = [ns EXCEPT ![s].probability =
                         PredictProba(ns[s].artifacts.model,
                                      ns[s].input_scaled)]
            /\ Ran(s, "predict_proba")
            /\ Goto(s, "bucket")
            /\ UNCHANGED <<shown, failed>>
    /\ UNCHANGED <<disk, cache, diskReads, today, form, trigger>>

\* The risk level if/elif.
Bucket(s) ==
    /\ pc[s] = "bucket"
    /\ ns' = [ns EXCEPT ![s].risk_level = RiskLevel(ns[s].probability)]
    /\ Ran(s, "bucket")
    /\ Goto(s, "report")
    /\ UNCHANGED <<disk, cache, diskReads, today, form, trigger, shown,
                   failed>>

\* The messages of the Quick Action buttons whose st.button returned True.
QuickActionMessages(by) ==
    IF by \in QuickActions THEN {"message_" \o by} ELSE {}

\* The names the predict block binds after the risk level (src/app.py:240-945).
ReportBindings(s) ==
    LET w == ns[s].widgets
        p == ns[s].probability
        date == Strftime(DateOf(today))
        ins == Insights(w, p)
        act == Actions(p)
    IN  [ns[s] EXCEPT
           !.confidence_delta = ConfidenceDelta(p),
           !.risk_scores = RiskScores(w),
           !.insights = ins,
           !.actions = act,
           !.report_date = date,
           !.pdf_text =
               PdfText(date, w, ns[s].prediction, p, ns[s].risk_level,
                       ins, act),
           !.csv_data =
               CsvData(date, w, ns[s].prediction, p, ns[s].risk_level),
           !.json_data =
               JsonData(date, ns[s].employee_input, ns[s].prediction, p,
                        ns[s].risk_level, ins, act),
           !.priority = DefaultPriority(p),
           !.profile_scores = ProfileScores(w),
           !.engagement_score = EngagementScore(w),
           !.satisfaction_index = SatisfactionIndex(w),
           !.stability_score = StabilityScore(w)]

\* A plausible change: the simulated trend (np.random.uniform) is added to
\* the JSON export.
ReportWithTrend(s) ==
    /\ pc[s] = "report"
    /\ \E drift \in {2, 5} :
          ns' = [ns EXCEPT ![s] =
                    [ReportBindings(s) EXCEPT
                       !.json_data = [trend |-> drift, data |-> @]]]
    /\ shown' = [shown EXCEPT ![s] =
                    @ \cup ResultElements \cup QuickActionMessages(trigger[s])]
    /\ Goto(s, "footer")
    /\ UNCHANGED <<disk, cache, diskReads, today, form, trigger, failed,
                   trace>>

\* The rest of the predict block: gauge, cards, insights, actions, report,
\* the three exports, the follow-up widgets and the charts.
Report(s) ==
    /\ pc[s] = "report"
    /\ ns' = [ns EXCEPT ![s] = ReportBindings(s)]
    /\ shown' = [shown EXCEPT ![s] =
                    @ \cup ResultElements \cup QuickActionMessages(trigger[s])]
    /\ Goto(s, "footer")
    /\ UNCHANGED <<disk, cache, diskReads, today, form, trigger, failed,
                   trace>>

\* The resources expanders and the footer, outside the predict block.
Footer(s) ==
    /\ pc[s] = "footer"
    /\ shown' = [shown EXCEPT ![s] = @ \cup {"resources", "footer"}]
    /\ Goto(s, "done")
    /\ UNCHANGED <<disk, cache, diskReads, today, form, trigger, ns, failed,
                   trace>>

Next ==
    \/ Midnight
    \/ \E s \in Sessions :
          \/ Connect(s)
          \/ Reload(s)
          \/ ChangeWidget(s)
          \/ ClickPredict(s)
          \/ FollowUp(s)
          \/ LoadModel(s)
          \/ BuildDict(s)
          \/ BuildTable(s)
          \/ Encode(s)
          \/ AlignColumns(s)
          \/ Scale(s)
          \/ Button(s)
          \/ Infer(s)
          \/ Proba(s)
          \/ Bucket(s)
          \/ Report(s)
          \/ Footer(s)

Spec == Init /\ [][Next]_vars

(***************************************************************************)
(* SpecAlign: one session rendering against every persisted feature-name   *)
(* list of up to MaxFeatureLen names over ColumnUniverse (repeats          *)
(* included), with a scaler and classifier fitted on that many columns.    *)
(***************************************************************************)
ColumnUniverse ==
    {"Age", "MonthlyIncome", "OverTime_Yes", "OverTime_No",
     "Department_Sales"}

SeqsUpTo(S, n) == UNION {[1..k -> S] : k \in 0..n}

ArtifactsFor(names, intercept) ==
    [model |-> [n_features_in |-> Len(names), has_proba |-> TRUE,
                intercept |-> intercept,
                coef |-> [i \in 1..Len(names) |-> 0]],
     scaler |-> [n_features_in |-> Len(names),
                 mean |-> [i \in 1..Len(names) |-> 0],
                 scale |-> [i \in 1..Len(names) |-> 1]],
     feature_names |-> names]

AlignDomain ==
    [age |-> {18, 30}, monthly_income |-> {5000},
     years_at_company |-> {5}, overtime |-> {"Yes", "No"},
     job_satisfaction |-> {3}, work_life_balance |-> {3}]

InitAlign ==
    /\ disk \in {[present |-> ArtifactFiles,
                  content |-> ArtifactsFor(names, PScale \div 2)] :
                    names \in SeqsUpTo(ColumnUniverse, MaxFeatureLen)
                              \cup {StdFeatures, AltFeatures}}
    /\ cache = EmptyCache
    /\ diskReads = 0
    /\ today = 0
    /\ InitSessions

NextAlign ==
    \E s \in {"s1"} :
        \/ Connect(s)
        \/ ChangeWidgetIn(s, AlignDomain)
        \/ LoadModel(s)
        \/ BuildDict(s)
        \/ BuildTable(s)
        \/ Encode(s)
        \/ AlignColumns(s)
        \/ Scale(s)
        \/ Button(s)
        \/ Footer(s)

SpecAlign == InitAlign /\ [][NextAlign]_vars

(***************************************************************************)
(* SpecBucket: one session predicting with a classifier whose class-1      *)
(* probability is a constant, for every constant 0..PScale.                *)
(***************************************************************************)
BucketDomain ==
    [age |-> {30}, monthly_income |-> {5000}, years_at_company |-> {5},
     overtime |-> {"Yes", "No"}, job_satisfaction |-> {3},
     work_life_balance |-> {3}]

InitBucket ==
    /\ disk \in {[present |-> ArtifactFiles,
                  content |-> ArtifactsFor(StdFeatures, k)] :
                    k \in 0..PScale}
    /\ cache = EmptyCache
    /\ diskReads = 0
    /\ today = 0
    /\ InitSessions

NextBucket ==
    \E s \in {"s1"} :
        \/ Connect(s)
        \/ ChangeWidgetIn(s, BucketDomain)
        \/ ClickPredict(s)
        \/ LoadModel(s)
        \/ BuildDict(s)
        \/ BuildTable(s)
        \/ Encode(s)
        \/ AlignColumns(s)
        \/ Scale(s)
        \/ Button(s)
        \/ Infer(s)
        \/ Proba(s)
        \/ Bucket(s)
        \/ Report(s)
        \/ Footer(s)

SpecBucket == InitBucket /\ [][NextBucket]_vars

(***************************************************************************)
(* SpecForm: one session predicting with the standard artifacts over the   *)
(* permitted form values: every tenure 0..40, every satisfaction and       *)
(* work-life balance 1..4, both OverTime values, and the ages and incomes  *)
(* on either side of the code's comparisons.                               *)
(***************************************************************************)
FormDomain ==
    [age |-> {30, 36}, monthly_income |-> {1000, 4999, 10000, 50000},
     years_at_company |-> 0..40, overtime |-> {"Yes", "No"},
     job_satisfaction |-> 1..4, work_life_balance |-> 1..4]

InitForm ==
    /\ disk = [present |-> ArtifactFiles, content |-> StdArtifacts]
    /\ cache = EmptyCache
    /\ diskReads = 0
    /\ today = 0
    /\ InitSessions

NextForm ==
    \E s \in {"s1"} :
        \/ Connect(s)
        \/ ChangeWidgetIn(s, FormDomain)
        \/ ClickPredict(s)
        \/ LoadModel(s)
        \/ BuildDict(s)
        \/ BuildTable(s)
        \/ Encode(s)
        \/ AlignColumns(s)
        \/ Scale(s)
        \/ Button(s)
        \/ Infer(s)
        \/ Proba(s)
        \/ Bucket(s)
        \/ Report(s)
        \/ Footer(s)

SpecForm == InitForm /\ [][NextForm]_vars

(***************************************************************************)
(* Claims.                                                                 *)
(***************************************************************************)
Range(f) == {f[i] : i \in DOMAIN f}

\* The render of s has run the given pipeline stage.
Did(s, stage) == stage \in Range(trace[s])

\* The one-hot-encoded input of the render of s, as get_dummies returned it
\* (the script overwrites input_df_encoded when it aligns).
EncodedInput(s) == GetDummies(ns[s].input_df)

\* C1: once a render has aligned its row (the row the scaler is given), the
\* row has exactly the columns of the persisted feature-name list, in the
\* list's order: as many columns as the list has names, the i-th column named
\* by the i-th name, and no column of the encoded input that the list lacks.
C1_AlignedRowHasPersistedColumns ==
    \A s \in Sessions :
        Did(s, "align") =>
            LET names == disk.content.feature_names
                row == ns[s].input_df_encoded
            IN  /\ Len(row) = Len(names)
                /\ ColumnNames(row) = names
                /\ \A c \in Range(ColumnNames(EncodedInput(s))) :
                      c \notin Range(names) => ~HasColumn(row, c)

\* C1 witness: a row was scaled whose list of three names holds a name the
\* encoded input lacks and lacks columns the encoded input has.
C1_Witness ==
    /\ pc["s1"] = "button"
    /\ form["s1"].overtime = "Yes"
    /\ disk.content.feature_names = <<"OverTime_No", "Department_Sales", "Age">>

\* C2: in an aligned row, the value under every name of the persisted list is
\* the encoded input's value of that column when the encoded input has it and
\* 0 otherwise; the indicator of the selected OverTime value is 1, the other
\* one 0; and aligning raised nothing.
C2_AlignedValues ==
    \A s \in Sessions :
        Did(s, "align") =>
            LET names == disk.content.feature_names
                row == ns[s].input_df_encoded
                enc == EncodedInput(s)
            IN  /\ failed[s] \notin {"align", "load"}
                /\ Len(row) = Len(names)
                /\ \A i \in 1..Len(names) :
                      /\ row[i].val = IF HasColumn(enc, names[i])
                                      THEN Column(enc, names[i]).val ELSE 0
                      /\ names[i] = "OverTime_" \o ns[s].widgets.overtime
                            => row[i].val = 1
                      /\ (/\ names[i] \in {"OverTime_Yes", "OverTime_No"}
                          /\ names[i] # "OverTime_" \o ns[s].widgets.overtime)
                            => row[i].val = 0

\* C2 witness: an aligned row holding the selected indicator (1), the
\* unselected one (0) and a copied number.
C2_Witness ==
    /\ pc["s1"] = "scale"
    /\ form["s1"].overtime = "No"
    /\ disk.content.feature_names = <<"OverTime_Yes", "Age", "OverTime_No">>
    /\ [i \in 1..3 |-> ns["s1"].input_df_encoded[i].val]
          = <<0, form["s1"].age, 1>>

\* C3: the risk level of a render is decided by its probability alone, with
\* cut points 0.3 and 0.6: Low Risk iff p < 0.3, Medium Risk iff
\* 0.3 <= p < 0.6, High Risk iff p >= 0.6, whatever the form and the label.
C3_RiskBucketing ==
    \A s \in Sessions :
        Did(s, "bucket") =>
            LET p == ns[s].probability
                level == ns[s].risk_level
            IN  /\ p \in 0..PScale
                /\ level \in {"Low Risk", "Medium Risk", "High Risk"}
                /\ level = "Low Risk" <=> 10 * p < 3 * PScale
                /\ level = "Medium Risk"
                      <=> (3 * PScale <= 10 * p /\ 10 * p < 6 * PScale)
                /\ level = "High Risk" <=> 10 * p >= 6 * PScale

\* C3 witness: a render bucketed a probability of exactly 0.3 as Medium Risk
\* with OverTime "No" on the form.
C3_Witness ==
    /\ pc["s1"] = "done"
    /\ ns["s1"].probability * 10 = 3 * PScale
    /\ ns["s1"].risk_level = "Medium Risk"
    /\ form["s1"].overtime = "No"

\* The render of s has emitted the prediction result (label, probability,
\* risk level, insights, exports).
ResultShown(s) == ResultElements \subseteq shown[s]

NoResult(s) ==
    /\ shown[s] \cap ResultElements = {}
    /\ ns[s].risk_level = ""
    /\ ns[s].pdf_text = <<>>
    /\ ns[s].csv_data = <<>>
    /\ ns[s].json_data = <<>>

\* Two renders got the same six inputs and the same prediction result.
SameSubmission(s, t) ==
    /\ ns[s].widgets = ns[t].widgets
    /\ ns[s].prediction = ns[t].prediction
    /\ ns[s].probability = ns[t].probability

SameExports(s, t) ==
    /\ ns[s].pdf_text = ns[t].pdf_text
    /\ ns[s].csv_data = ns[t].csv_data
    /\ ns[s].json_data = ns[t].json_data

\* C4 as stated: two renders that produced exports from the same six inputs
\* and the same label and probability hold the same text, CSV and JSON,
\* whatever else differs between them.
C4_ExportsDependOnInputsOnly ==
    \A s, t \in Sessions :
        (ResultShown(s) /\ ResultShown(t) /\ SameSubmission(s, t))
            => SameExports(s, t)

\* C4 amended: two renders that produced exports from the same six inputs and
\* the same label and probability ON THE SAME CALENDAR DATE hold the same
\* text, CSV and JSON (each export carries the date of its render).
C4_ExportsDependOnInputsAndDate ==
    \A s, t \in Sessions :
        (/\ ResultShown(s) /\ ResultShown(t) /\ SameSubmission(s, t)
         /\ ns[s].report_date = ns[t].report_date)
            => SameExports(s, t)

\* C4 witness: two sessions with different histories exported the same
\* non-default submission on the same date.
C4_Witness ==
    /\ ResultShown("s1") /\ ResultShown("s2")
    /\ SameSubmission("s1", "s2")
    /\ ns["s1"].widgets.age = 50
    /\ ns["s1"].report_date = ns["s2"].report_date
    /\ today = 1
    /\ ns["s1"].pdf_text # <<>>

\* C5 as stated: the predict block holds an explainability visualization
\* inside a try/catch, so a predict render that reaches its end has shown
\* either the feature-importance chart or the handler's error message.
C5_ExplainabilityGuarded ==
    \A s \in Sessions :
        (pc[s] = "done" /\ ns[s].predict_button)
            => \/ "feature_importance" \in shown[s]
               \/ "explainability_error" \in shown[s]

\* The render of s is past the statement that scales the row.
PastScale(s) ==
    pc[s] \in {"button", "predict", "proba", "bucket", "report", "footer",
               "done"}

\* C6: nothing handles a failure of load_model, scaler.transform,
\* model.predict or model.predict_proba.  A render in which one of them
\* raised is terminated there and has produced no result, risk level or
\* export; a failed load or scaling ends the render before the predict button
\* is emitted; and no render gets past a statement that must raise (a missing
\* file, a row the scaler or the classifier rejects, no predict_proba).
C6_FailuresPropagate ==
    \A s \in Sessions :
        /\ failed[s] # "none" =>
              /\ pc[s] = "crashed"
              /\ "exception" \in shown[s]
              /\ NoResult(s)
        /\ failed[s] \in {"load", "scale"} => "predict_button" \notin shown[s]
        /\ disk.present # ArtifactFiles => pc[s] \in {"new", "load", "crashed"}
        /\ Len(disk.content.feature_names) # disk.content.scaler.n_features_in
              => ~PastScale(s)
        /\ Len(disk.content.feature_names) # disk.content.model.n_features_in
              => (~Did(s, "predict") /\ ~ResultShown(s))
        /\ ~disk.content.model.has_proba
              => (~Did(s, "predict_proba") /\ ~ResultShown(s))

\* C6 witness: a render whose predict button was clicked ended at
\* predict_proba, which the loaded classifier does not have.
C6_Witness ==
    /\ failed["s1"] = "predict_proba"
    /\ ns["s1"].predict_button
    /\ pc["s1"] = "crashed"
    /\ pc["s2"] = "done"

\* The render of s holds the artifacts load_model returned.
Loaded(s) == pc[s] \notin {"new", "load"} /\ failed[s] # "load"

\* C7: once load_model has succeeded, no render of any session runs its body
\* again (the files are not reopened, the cache entry is not replaced), the
\* body has run exactly once, and every render past its load_model call holds
\* the cached objects, which are the persisted ones.
C7_LoadedOnce ==
    [][/\ cache.present => (cache' = cache /\ diskReads' = diskReads)
       /\ cache'.present =>
             /\ diskReads' = 1
             /\ cache'.value = disk.content
             /\ \A s \in Sessions :
                   Loaded(s)' => ns'[s].artifacts = cache'.value]_vars

\* C7 witness: both sessions have rendered, one of them several times, and the
\* body of load_model has run once.
C7_Witness ==
    /\ cache.present
    /\ diskReads = 1
    /\ pc["s1"] = "done" /\ trigger["s1"] = "predict"
    /\ pc["s2"] = "done" /\ trigger["s2"] = "form"

\* What a render of the given widgets computes from the persisted artifacts.
PipelineRow(w) ==
    Transform(disk.content.scaler,
              Align(GetDummies(DataFrame(EmployeeInput(w))),
                    disk.content.feature_names))

\* C8: no step of any render changes the cached artifacts or the files, and a
\* render's probability is the persisted classifier's answer for that
\* render's own form values, whatever the other session rendered meanwhile.
C8_ArtifactsReadOnly ==
    [][/\ disk' = disk
       /\ cache.present => cache'.value = cache.value
       /\ \A s \in Sessions :
             /\ (Loaded(s) /\ Loaded(s)' /\ pc[s] # "done" /\ pc[s] # "crashed")
                   => ns'[s].artifacts = ns[s].artifacts
             /\ Did(s, "predict_proba")' =>
                   ns'[s].probability =
                       PredictProba(disk.content.model,
                                    PipelineRow(ns'[s].widgets))]_vars

\* C8 witness: the two sessions hold results for different forms.
C8_Witness ==
    /\ ResultShown("s1") /\ ResultShown("s2")
    /\ pc["s1"] = "done" /\ pc["s2"] = "done"
    /\ ns["s1"].widgets.overtime # ns["s2"].widgets.overtime
    /\ ns["s1"].probability # ns["s2"].probability

PipelineOrder ==
    <<"dict", "table", "encode", "align", "scale", "predict",
      "predict_proba", "bucket">>

IsPrefix(a, b) == Len(a) <= Len(b) /\ a = SubSeq(b, 1, Len(a))

\* C9: the stages of a render run in the pipeline's order, each on the output
\* of the one before: dict from the form, table from the dict, encoding from
\* the table, alignment of the encoding to the persisted list, scaling of the
\* aligned row, inference and class-1 probability on the scaled row, bucket
\* from the probability.  Inference starts only after alignment and scaling,
\* and a predict render that reaches its end has run every stage.
C9_PipelineOrder ==
    \A s \in Sessions :
        /\ IsPrefix(trace[s], PipelineOrder)
        /\ Did(s, "dict") => ns[s].employee_input = EmployeeInput(form[s])
        /\ Did(s, "table") => ns[s].input_df = DataFrame(ns[s].employee_input)
        /\ (Did(s, "encode") /\ ~Did(s, "align"))
              => ns[s].input_df_encoded = GetDummies(ns[s].input_df)
        /\ Did(s, "align") =>
              ns[s].input_df_encoded =
                  Align(GetDummies(ns[s].input_df),
                        ns[s].artifacts.feature_names)
        /\ Did(s, "scale") =>
              ns[s].input_scaled =
                  Transform(ns[s].artifacts.scaler, ns[s].input_df_encoded)
        /\ Did(s, "predict") =>
              ns[s].prediction =
                  Predict(ns[s].artifacts.model, ns[s].input_scaled)
        /\ Did(s, "predict_proba") =>
              ns[s].probability =
                  PredictProba(ns[s].artifacts.model, ns[s].input_scaled)
        /\ Did(s, "bucket") =>
              ns[s].risk_level = RiskLevel(ns[s].probability)
        /\ pc[s] \in {"predict", "proba"} =>
              (Did(s, "align") /\ Did(s, "scale"))
        /\ (pc[s] = "done" /\ ns[s].predict_button) =>
              trace[s] = PipelineOrder

\* C9 witness: a predict render of a changed form ran all eight stages.
C9_Witness ==
    /\ pc["s1"] = "done"
    /\ trace["s1"] = PipelineOrder
    /\ form["s1"] # FormDefaults

\* The render of s called model.predict.
InferenceCalled(s) ==
    Did(s, "predict") \/ failed[s] \in {"predict", "predict_proba"}

\* C10 as stated: a finished render has called the classifier, and shows a
\* result, exactly if its predict button was reported clicked.
C10_ResultIffClicked ==
    \A s \in Sessions :
        Idle(s) =>
            /\ InferenceCalled(s) <=> ns[s].predict_button
            /\ ResultShown(s) <=> ns[s].predict_button

\* C10 amended: a finished render has called the classifier exactly if its
\* predict button was reported clicked, and shows a result exactly if the
\* button was reported clicked AND neither predict nor predict_proba raised.
\* Nothing is carried over: a render not started by a predict click holds no
\* probability, risk level or export, and a shown result is the classifier's
\* answer for the current form values.
C10_ResultEphemeral ==
    \A s \in Sessions :
        /\ ns[s].predict_button <=>
              /\ trigger[s] = "predict"
              /\ \/ PastScale(s) /\ pc[s] # "button"
                 \/ failed[s] \in {"predict", "predict_proba"}
        /\ Idle(s) =>
              /\ InferenceCalled(s) <=> ns[s].predict_button
              /\ ResultShown(s) <=>
                    (ns[s].predict_button /\ failed[s] = "none")
        /\ trigger[s] # "predict" =>
              /\ ~InferenceCalled(s)
              /\ NoResult(s)
              /\ ns[s].probability = -1
        /\ ResultShown(s) =>
              /\ ns[s].probability =
                    PredictProba(ns[s].artifacts.model, PipelineRow(form[s]))
              /\ ns[s].risk_level = RiskLevel(ns[s].probability)

\* C10 witness: after a result was shown the user typed case notes, and the
\* render that followed shows no result.
C10_Witness ==
    /\ pc["s1"] = "done"
    /\ trigger["s1"] = "hr_notes"
    /\ ~ResultShown("s1")
    /\ "predict_button" \in shown["s1"]

\* The cell of the CSV data row under each header name, for the submission of
\* session s: its form values and its prediction result.
SubmittedCell(s) ==
    [name \in Range(CsvHeader) |->
        CASE name = "Date" -> "\"" \o ns[s].report_date \o "\""
          [] name = "Age" -> ToString(form[s].age)
          [] name = "Years_at_Company" -> ToString(form[s].years_at_company)
          [] name = "Monthly_Income" -> ToString(form[s].monthly_income)
          [] name = "OverTime" -> form[s].overtime
          [] name = "Job_Satisfaction" -> ToString(form[s].job_satisfaction)
          [] name = "Work_Life_Balance" -> ToString(form[s].work_life_balance)
          [] name = "Prediction" ->
                (IF ns[s].prediction = 1 THEN "Attrition" ELSE "Retention")
          [] name = "Risk_Probability" -> FmtFix2(ns[s].probability)
          [] name = "Risk_Level" -> ns[s].risk_level
          [] name = "Confidence" -> FmtConf1(ns[s].probability)]

\* The result of the submission of session s is the classifier's answer for
\* the submitted form values.
OwnResult(s) ==
    /\ ns[s].prediction =
          Predict(ns[s].artifacts.model, PipelineRow(form[s]))
    /\ ns[s].probability =
          PredictProba(ns[s].artifacts.model, PipelineRow(form[s]))
    /\ ns[s].risk_level = RiskLevel(ns[s].probability)

\* C11: once a render shows a result, each of its three exports holds the six
\* submitted form values and that submission's label, probability, risk
\* level and confidence: the text report has a line for each, the CSV is its
\* header and exactly one data row whose cell under every header name is the
\* submitted value, and the JSON employee_profile is exactly the six form
\* fields with their submitted values.
C11_ExportsHoldSubmission ==
    \A s \in Sessions :
        ResultShown(s) =>
            LET f == form[s]
                txt == Range(ns[s].pdf_text)
                js == ns[s].json_data
            IN  /\ OwnResult(s)
                /\ {"Age: " \o ToString(f.age) \o " years",
                     "Tenure: " \o ToString(f.years_at_company) \o " years",
                     "Monthly Income: $" \o FmtThousands(f.monthly_income),
                     "Overtime: " \o f.overtime,
                     "Job Satisfaction: " \o ToString(f.job_satisfaction)
                        \o "/4",
                     "Work-Life Balance: " \o ToString(f.work_life_balance)
                        \o "/4",
                     "Prediction: " \o (IF ns[s].prediction = 1
                                        THEN "ATTRITION LIKELY"
                                        ELSE "RETENTION LIKELY"),
                     "Risk Probability: " \o FmtPct1(ns[s].probability),
                     "Risk Level: " \o Upper(ns[s].risk_level),
                     "Confidence Score: " \o FmtConf1(ns[s].probability)
                        \o "%"} \subseteq txt
                /\ Len(ns[s].csv_data) = 2
                /\ ns[s].csv_data[1] = JoinComma(CsvHeader)
                /\ ns[s].csv_data[2] =
                      JoinComma([i \in 1..Len(CsvHeader) |->
                                    SubmittedCell(s)[CsvHeader[i]]])
                /\ DOMAIN js.employee_profile = Range(DictKeys)
                /\ Cardinality(DOMAIN js.employee_profile) = 6
                /\ js.employee_profile.Age = f.age
                /\ js.employee_profile.MonthlyIncome = f.monthly_income
                /\ js.employee_profile.YearsAtCompany = f.years_at_company
                /\ js.employee_profile.OverTime = f.overtime
                /\ js.employee_profile.JobSatisfaction = f.job_satisfaction
                /\ js.employee_profile.WorkLifeBalance = f.work_life_balance
                /\ js.risk_assessment.prediction = SubmittedCell(s)["Prediction"]
                /\ js.risk_assessment.probability = ns[s].probability
                /\ js.risk_assessment.risk_level = ns[s].risk_level
                /\ js.risk_assessment.confidence =
                      Confidence(ns[s].probability)

\* C11 witness: a result is shown for a submission whose tenure and income
\* differ from each other and from the defaults, predicted as attrition.
C11_Witness ==
    /\ ResultShown("s1")
    /\ form["s1"].years_at_company = 12
    /\ form["s1"].monthly_income = 4999
    /\ form["s1"].job_satisfaction = 1
    /\ form["s1"].work_life_balance = 4
    /\ form["s1"].overtime = "Yes"
    /\ ns["s1"].prediction = 1
    /\ Len(ns["s1"].csv_data) = 2

\* C12 as stated: the label shown with the confidence follows the three
\* documented bands of confidence = max(p, 1 - p) * 100: "High" above 80,
\* "Medium" from 60 to 80, "Low" below 60.
C12_ConfidenceBands ==
    \A s \in Sessions :
        ResultShown(s) =>
            LET c == Confidence(ns[s].probability)
            IN  ns[s].confidence_delta =
                    IF c > 80 * PScale THEN "High"
                    ELSE IF c >= 60 * PScale THEN "Medium"
                    ELSE "Low"

\* C13 as stated: the render started by a click on a Quick Action button,
\* once finished, shows that button's confirmation message.
C13_QuickActionConfirmed ==
    \A s \in Sessions :
        (pc[s] = "done" /\ trigger[s] \in QuickActions)
            => QuickActionMessages(trigger[s]) \subseteq shown[s]

\* C14: in every shown result the Tenure risk score is 15 for fewer than 2
\* years, 12 for more than 10 years and 5 otherwise, so new hires and
\* long-tenured employees score strictly above everyone with 2..10 years.
C14_TenureRisk ==
    \A s \in Sessions :
        ResultShown(s) =>
            LET y == form[s].years_at_company
                score == ns[s].risk_scores[5]
            IN  /\ Len(ns[s].risk_scores) = 5
                /\ y < 2 => score = 15
                /\ y > 10 => score = 12
                /\ (y >= 2 /\ y <= 10) => score = 5
                /\ (y < 2 \/ y > 10) =>
                      \A m \in 2..10 : score > TenureRisk(m)

\* C14 witness: a result is shown for an employee of 11 years, scored 12.
C14_Witness ==
    /\ ResultShown("s1")
    /\ form["s1"].years_at_company = 11
    /\ ns["s1"].risk_scores[5] = 12

\* C15: in every shown result each of the five radar profile scores, the
\* stability score, the satisfaction index and the engagement score lies in
\* [0, 100] (scores are held in hundredths of a point).
C15_ScoresNormalized ==
    \A s \in Sessions :
        ResultShown(s) =>
            /\ Len(ns[s].profile_scores) = 5
            /\ \A i \in 1..5 :
                  /\ ns[s].profile_scores[i] >= 0
                  /\ ns[s].profile_scores[i] <= 100 * 100
            /\ \A x \in {ns[s].stability_score, ns[s].satisfaction_index,
                          ns[s].engagement_score} :
                  x >= 0 /\ x <= 100 * 100

\* C15 witness: a result is shown for the largest permitted income, tenure,
\* satisfaction and work-life balance, with income and tenure scores capped
\* at 100 and the engagement score at 100.
C15_Witness ==
    /\ ResultShown("s1")
    /\ form["s1"].monthly_income = 50000
    /\ form["s1"].years_at_company = 40
    /\ form["s1"].job_satisfaction = 4
    /\ form["s1"].work_life_balance = 4
    /\ ns["s1"].profile_scores[3] = 100 * 100
    /\ ns["s1"].profile_scores[4] = 100 * 100
    /\ ns["s1"].engagement_score = 100 * 100

\* The bucket each probability-derived output of the render of s shows.
LevelBucket(s) ==
    CASE ns[s].risk_level = "High Risk" -> "High"
      [] ns[s].risk_level = "Medium Risk" -> "Medium"
      [] ns[s].risk_level = "Low Risk" -> "Low"
      [] OTHER -> "none"

HeadlineBucket(s) ==
    CASE ns[s].insights[1] =
            "**Critical Alert:** Employee shows high attrition probability"
            -> "High"
      [] ns[s].insights[1] =
            "**Watch Alert:** Moderate risk detected - early intervention recommended"
            -> "Medium"
      [] ns[s].insights[1] =
            "**Positive Signal:** Low attrition risk - employee appears stable"
            -> "Low"
      [] OTHER -> "none"

ActionsBucket(s) ==
    CASE ns[s].actions[1] =
            "**Immediate:** Schedule retention interview within 48 hours"
            -> "High"
      [] ns[s].actions[1] =
            "**Monitor:** Conduct monthly check-ins and pulse surveys"
            -> "Medium"
      [] ns[s].actions[1] =
            "**Maintain:** Continue current engagement practices"
            -> "Low"
      [] OTHER -> "none"

\* C16: in every shown result the risk level, the first insight, the action
\* list and the default follow-up priority name the same one of the three
\* buckets, and the default priority is never "Critical".
C16_OutputsAgreeOnBucket ==
    \A s \in Sessions :
        ResultShown(s) =>
            /\ LevelBucket(s) \in {"High", "Medium", "Low"}
            /\ HeadlineBucket(s) = LevelBucket(s)
            /\ ActionsBucket(s) = LevelBucket(s)
            /\ ns[s].priority = LevelBucket(s)
            /\ ns[s].priority # "Critical"
            /\ ns[s].priority \in Range(PriorityOptions)

\* C16 witness: a result is shown for a probability exactly on the upper cut
\* point 0.6, with every output in the High bucket.
C16_Witness ==
    /\ ResultShown("s1")
    /\ 10 * ns["s1"].probability = 6 * PScale
    /\ LevelBucket("s1") = "High"
    /\ ns["s1"].priority = "High"

\* Every 'Risk Probability' line a one-decimal percentage of 0.0 to 100.0
\* gives, by its number of tenths of a percent.
PctLines ==
    [t \in 0..1000 |-> "Risk Probability: " \o Tenths(t) \o "%"]

\* Every two-decimal rendering of 0.00 to 1.00, by its number of hundredths.
Fix2Cells == [h \in 0..100 |-> Hundredths(h)]

\* The probability the text report of s prints, read back from its
\* 'Risk Probability' line in tenths of a percent (-1 if the line is not a
\* one-decimal percentage).
PrintedPct1(s) ==
    LET line == ns[s].pdf_text[17]
        fits == {t \in 0..1000 : line = PctLines[t]}
    IN  IF fits = {} THEN -1 ELSE CHOOSE t \in fits : TRUE

\* The probability the CSV row of s prints, read back from its
\* Risk_Probability cell in hundredths (-1 if the cell is not a two-decimal
\* number).
PrintedFix2(s) ==
    LET cells == [i \in 1..Len(CsvHeader) |-> SubmittedCell(s)[CsvHeader[i]]]
        before == JoinComma(SubSeq(cells, 1, 8)) \o ","
        after == "," \o JoinComma(SubSeq(cells, 10, 11))
        row == ns[s].csv_data[2]
        fits == {h \in 0..100 : row = before \o Fix2Cells[h] \o after}
    IN  IF fits = {} THEN -1 ELSE CHOOSE h \in fits : TRUE

\* The 0.3 / 0.6 bucket of a value v given in units of 1 / scale.
BucketOf(v, scale) ==
    IF 10 * v < 3 * scale THEN "Low Risk"
    ELSE IF 10 * v < 6 * scale THEN "Medium Risk"
    ELSE "High Risk"

\* C17 as stated: in the text report and in the CSV row of every shown
\* result, the risk level printed is the 0.3 / 0.6 bucket of the probability
\* as printed in that export (one-decimal percent, two decimals).
C17_PrintedLevelMatchesPrinted ==
    \A s \in Sessions :
        ResultShown(s) =>
            LET t == PrintedPct1(s)
                h == PrintedFix2(s)
            IN  /\ t >= 0
                /\ h >= 0
                /\ ns[s].pdf_text[18] =
                      "Risk Level: " \o Upper(BucketOf(t, 1000))
                /\ SubmittedCell(s)["Risk_Level"] = BucketOf(h, 100)

\* C17 amended: the risk level printed in every export is the bucket of the
\* unrounded probability.  It differs from the bucket of the probability as
\* printed only when rounding carried the printed value up to a cut point:
\* the probability is below 0.3 or 0.6 by at most 0.0005 in the text report,
\* by at most 0.005 in the CSV row.
C17_PrintedLevelMatchesUnrounded ==
    \A s \in Sessions :
        ResultShown(s) =>
            LET p == ns[s].probability
                t == PrintedPct1(s)
                h == PrintedFix2(s)
                near(d) == \E cut \in {3 * PScale, 6 * PScale} :
                              10 * p < cut /\ cut - 10 * p <= d
            IN  /\ t >= 0
                /\ h >= 0
                /\ ns[s].pdf_text[18] =
                      "Risk Level: " \o Upper(BucketOf(p, PScale))
                /\ SubmittedCell(s)["Risk_Level"] = BucketOf(p, PScale)
                /\ ns[s].json_data.risk_assessment.risk_level =
                      BucketOf(ns[s].json_data.risk_assessment.probability,
                               PScale)
                /\ BucketOf(t, 1000) # BucketOf(p, PScale)
                      => near((5 * PScale) \div 1000)
                /\ BucketOf(h, 100) # BucketOf(p, PScale)
                      => near((5 * PScale) \div 100)

\* C17 witness: a result is shown for probability 0.2996, printed as 30.0%
\* and 0.30 beside the level Low Risk.
C17_Witness ==
    /\ ResultShown("s1")
    /\ ns["s1"].probability = 2996
    /\ PrintedPct1("s1") = 300
    /\ PrintedFix2("s1") = 30
    /\ ns["s1"].pdf_text[18] = "Risk Level: LOW RISK"

====
